---- MODULE Spec2Model ----
(***************************************************************************)
(* A model of notes_base.py (NotesBase): the field builders tags() and      *)
(* note(), the template renderer, and take_note with its two file writers   *)
(* (append, and prepend through a temp file that is moved onto the notes    *)
(* file).                                                                   *)
(*                                                                          *)
(* Text is a sequence of characters; "CR" and "LF" stand for '\r' and '\n'. *)
(* Files are opened in text mode (open(name, 'r' / 'a' / 'w')), so a read   *)
(* goes through Python's universal-newline translation and a write through  *)
(* the translation of '\n' to os.linesep.                                   *)
(***************************************************************************)
EXTENDS Integers, Sequences, FiniteSets, TLC

VARIABLES
    configs,    \* self.configs: a mapping with optional keys
    fs,         \* path -> content of the file there, or Absent
    tmpdir,     \* temp file name -> content, or Absent (tempfile's directory)
    pc,         \* per invocation: where it stands in take_note
    args,       \* per invocation: the arguments of the running take_note call
    data,       \* per invocation: rendered_note, the text being written
    tmpname,    \* per invocation: tmp_file.name of prepend_data_to_file
    notes_data, \* per invocation: the old content prepend_data_to_file read
    result,     \* per invocation: what the last call returned or raised
    budget,     \* per invocation: calls it may still make
    log,        \* history: <<mode, text>> of every write that returned True
    dest0,      \* history: the notes file's content when the run began
    overlap,    \* history: some call began while another was running
    before,     \* history, per invocation: the destination when the call began
    op,         \* field builders: the builder last called ("none" before)
    inp,        \* field builders: its arguments
    ret         \* field builders: what it returned or raised

vars == <<configs, fs, tmpdir, pc, args, data, tmpname, notes_data, result,
          budget, log, dest0, overlap, before, op, inp, ret>>

fileVars == <<fs, tmpdir, pc, args, data, tmpname, notes_data, result,
              budget, log, dest0, overlap, before>>

builderVars == <<op, inp, ret>>

----------------------------------------------------------------------------
(* Bounds *)

\* take_note calls in a run of Spec
MaxCalls == 1

\* writing take_note calls made one after another in a run of SpecSeq
MaxWrites == 3

\* length of a tag list handed to tags() and note()
MaxTags == 2

----------------------------------------------------------------------------
(* Text *)

\* the marker for "no file at this path": no text equals it
Absent == <<"<absent>">>

\* os.linesep on the platform of the script's shebang (/usr/bin/env: POSIX)
OsLinesep == <<"LF">>

RECURSIVE ReadText(_)
\* open(name, 'r').read(): universal newlines, "\r\n" and "\r" become "\n"
ReadText(s) ==
    IF s = <<>> THEN <<>>
    ELSE IF Head(s) = "CR"
         THEN IF Len(s) >= 2 /\ s[2] = "LF"
              THEN <<"LF">> \o ReadText(SubSeq(s, 3, Len(s)))
              ELSE <<"LF">> \o ReadText(Tail(s))
         ELSE <<Head(s)>> \o ReadText(Tail(s))

RECURSIVE WriteText(_)
\* fd.write(data) on a text-mode file: "\n" becomes os.linesep
WriteText(s) ==
    IF s = <<>> THEN <<>>
    ELSE (IF Head(s) = "LF" THEN OsLinesep ELSE <<Head(s)>>) \o WriteText(Tail(s))

----------------------------------------------------------------------------
(* Paths and the file system *)

NotesPaths == {"notes/n.md", "gone/n.md"}

TemplatePaths == {"tpl.j2", "nope.j2"}

Paths == NotesPaths \cup TemplatePaths

\* os.path.dirname
Dirname(path) ==
    CASE path = "notes/n.md" -> "notes"
      [] path = "gone/n.md"  -> "gone"
      [] OTHER               -> ""

\* the directories that exist; os.path.isdir("") is False
Dirs == {"notes"}

dir_exists(dirname) == dirname \in Dirs

path_exists(path) == fs[path] # Absent

\* the template on disk: {{ note.comment }} followed by two newlines
TemplateText == <<"VAR", "LF", "LF">>

TmpNames == 1 .. (MaxCalls + MaxWrites + 2)

----------------------------------------------------------------------------
(* Values of the field builders *)

\* A keyword argument left at its default None is a key the argument mapping
\* lacks.  A tag is [str |-> text] or, for a non-string, [int |-> n].
Has(m, key) == key \in DOMAIN m

\* Python truthiness of an optional argument: of a text or a list, ...
Truthy(m, key) == Has(m, key) /\ m[key] # <<>>

\* ... of a path or a name (a string of the model), ...
TruthyName(m, key) == Has(m, key) /\ m[key] # ""

\* ... and of a mapping
TruthyMap(m, key) == Has(m, key) /\ DOMAIN m[key] # {}

IsStr(tag) == "str" \in DOMAIN tag

DigitChar == <<"0", "1", "2", "3", "4", "5", "6", "7", "8", "9">>

RECURSIVE Decimal(_)
\* str(n) of a natural number
Decimal(n) ==
    IF n < 10 THEN <<DigitChar[n + 1]>>
    ELSE Decimal(n \div 10) \o <<DigitChar[(n % 10) + 1]>>

\* str(tag)
Str(tag) == IF IsStr(tag) THEN tag ELSE [str |-> Decimal(tag.int)]

\* tag.startswith("#"), for a string
StartsWithHash(tag) == Len(tag.str) >= 1 /\ tag.str[1] = "#"

Returned(v) == [kind |-> "ok", val |-> v]

Raised(e) == [kind |-> e, val |-> <<>>]

\* get_date(): the timestamp of the call
Now == <<"D">>

----------------------------------------------------------------------------
(* Field builders *)

\* Python's None as the value of a mapping: no text equals it
None == <<"<none>">>

comment(a) == [comment |-> IF Has(a, "comment") THEN a.comment ELSE None]

content(a) == [content |-> IF Has(a, "content") THEN a.content ELSE None]

urls(a) == [urls |-> IF Truthy(a, "urls") THEN a.urls ELSE <<>>]

\* "#{}".format(tag)
HashPrefixed(tag) == [str |-> <<"#">> \o tag.str]

\* the loop body of tags() without its startswith("#") test
TagStep_always_prefixing(cfg, list, idx) ==
    LET tag == list[idx]
    IN  IF ~Has(cfg, "auto_prepend_hashtag") THEN Raised("KeyError")
        ELSE IF ~cfg["auto_prepend_hashtag"]
             THEN Returned([list EXCEPT ![idx] = Str(tag)])
        ELSE IF ~IsStr(tag) THEN Raised("AttributeError")
        ELSE Returned([list EXCEPT ![idx] = HashPrefixed(tag)])

\* One pass of the loop body of tags(): `tag` is the element enumerate()
\* yielded, `list` the list being rewritten in place.  What the caller's list
\* holds after an exception is not part of the result.
TagStep(cfg, list, idx) ==
    LET tag == list[idx]
        coerced == IF IsStr(tag) THEN list ELSE [list EXCEPT ![idx] = Str(tag)]
    IN  IF ~Has(cfg, "auto_prepend_hashtag") THEN Raised("KeyError")
        ELSE IF ~cfg["auto_prepend_hashtag"] THEN Returned(coerced)
        ELSE IF ~IsStr(tag) THEN Raised("AttributeError")
        ELSE IF StartsWithHash(tag) THEN Returned(coerced)
        ELSE Returned([coerced EXCEPT ![idx] = HashPrefixed(tag)])

RECURSIVE TagsLoop(_, _, _)
TagsLoop(cfg, list, idx) ==
    IF idx > Len(list) THEN Returned([tags |-> list])
    ELSE LET step == TagStep(cfg, list, idx)
         IN  IF step.kind # "ok" THEN step
             ELSE TagsLoop(cfg, step.val, idx + 1)

\* tags(self, tags=None)
tags(cfg, a) == TagsLoop(cfg, IF Truthy(a, "tags") THEN a.tags ELSE <<>>, 1)

\* header(self, header=None), with self.date = date
header(cfg, a, date) ==
    IF Truthy(a, "header")
    THEN IF ~Has(cfg, "append_date_to_header") THEN Raised("KeyError")
         ELSE IF cfg["append_date_to_header"]
              THEN Returned([header |-> a.header \o <<" ", "/", " ">> \o date])
              ELSE Returned([header |-> a.header])
    ELSE Returned([header |-> date])

\* note() updating the record with every element, whatever its value
IfTruthy_always(element) == element

\* the single-key mapping `element` when its value is truthy, else nothing
IfTruthy(element) ==
    IF \E k \in DOMAIN element : element[k] \notin {<<>>, None}
    THEN element ELSE <<>>

\* note(self, date=None, comment=None, content=None, tags=None, urls=None,
\*      header=None, **kwargs): later updates overwrite earlier keys
note(cfg, a) ==
    LET date == IF Truthy(a, "date") THEN a.date ELSE Now
        h == header(cfg, a, date)
        t == tags(cfg, a)
        u == urls(a)
        kwargs == IF Has(a, "kwargs") THEN a.kwargs ELSE <<>>
    IN  IF h.kind # "ok" THEN h
        ELSE IF t.kind # "ok" THEN t
        ELSE Returned(kwargs
                      @@ (IF u.urls # <<>> THEN u ELSE <<>>)
                      @@ (IF t.val.tags # <<>> THEN t.val ELSE <<>>)
                      @@ IfTruthy(h.val)
                      @@ IfTruthy(content(a))
                      @@ IfTruthy(comment(a)))

----------------------------------------------------------------------------
(* Template renderer *)

\* content_type(self, content_type=None)
content_type(cfg, a) ==
    IF TruthyName(a, "content_type") THEN Returned(a.content_type)
    ELSE IF Has(cfg, "default_content_type")
         THEN Returned(cfg["default_content_type"])
         ELSE Raised("KeyError")

\* template_file(self, template_file=None)
template_file(cfg, a) ==
    IF ~TruthyName(a, "template_file") /\ ~Has(cfg, "default_template_file")
    THEN Raised("KeyError")
    ELSE LET path == IF TruthyName(a, "template_file") THEN a.template_file
                     ELSE cfg["default_template_file"]
         IN  IF path_exists(path) THEN Returned(path) ELSE Raised("NotesErr")

\* jinja2.Template(source): one trailing newline of the source is dropped
Compile(source) ==
    IF source # <<>> /\ source[Len(source)] = "LF"
    THEN SubSeq(source, 1, Len(source) - 1)
    ELSE source

\* get_template(self, template_file)
get_template(path) == Compile(ReadText(fs[path]))

RECURSIVE render_template(_, _)
\* template.render(template_data): {{ note.comment }} is the note's comment,
\* and nothing when the note has none
render_template(template, template_data) ==
    IF template = <<>> THEN <<>>
    ELSE (IF Head(template) = "VAR"
          THEN IF Has(template_data.note, "comment")
               THEN template_data.note.comment ELSE <<>>
          ELSE <<Head(template)>>)
         \o render_template(Tail(template), template_data)

\* render_note(self, template_file=None, note=None, content_type=None)
render_note(cfg, a) ==
    LET ct == content_type(cfg, a)
        n == IF TruthyMap(a, "note") THEN Returned(a.note) ELSE note(cfg, <<>>)
        tf == template_file(cfg, a)
    IN  IF ct.kind # "ok" THEN ct
        ELSE IF n.kind # "ok" THEN n
        ELSE IF tf.kind # "ok" THEN tf
        ELSE Returned(render_template(get_template(tf.val),
                                      [note |-> n.val, content_type |-> ct.val]))

----------------------------------------------------------------------------
(* File writer *)

\* notes_file(self, notes_file=None)
notes_file(cfg, a) ==
    IF ~TruthyName(a, "notes_file") /\ ~Has(cfg, "notes_file")
    THEN Raised("NotesErr")
    ELSE LET path == IF TruthyName(a, "notes_file") THEN a.notes_file
                     ELSE cfg["notes_file"]
         IN  IF dir_exists(Dirname(path)) THEN Returned(path)
             ELSE Raised("NotesErr")

\* take_note, line 475: notes_file = notes_file or self.notes_file(notes_file)
ResolveNotesFile(cfg, a) ==
    IF TruthyName(a, "notes_file") THEN Returned(a.notes_file)
    ELSE notes_file(cfg, a)

\* write_data_to_file opening the file with 'w' whether or not it exists
write_data_to_file_truncating(old, text) == WriteText(text)

\* write_data_to_file(filename, data), on the content `old` of filename:
\* mode 'a' when the file exists, 'w' when it does not
write_data_to_file(old, text) ==
    IF old # Absent THEN old \o WriteText(text) ELSE WriteText(text)

\* bytes written from offset 0 over the content `old` of a file that was
\* opened without O_APPEND
Overlay(old, bytes) == bytes \o SubSeq(old, Len(bytes) + 1, Len(old))

\* read_file(filename)
read_file(path) == ReadText(fs[path])

----------------------------------------------------------------------------
(* Invocations of take_note *)

Procs == {"p1", "p2"}

\* the destination the running call of p writes
Dest(p) == ResolveNotesFile(configs, args[p]).val

\* tempfile.NamedTemporaryFile: a name no file has
FreshTmp == CHOOSE n \in TmpNames :
                /\ tmpdir[n] = Absent
                /\ \A m \in TmpNames : m < n => tmpdir[m] # Absent

\* the call of p ends with result `res`; its locals are gone
Finish(p, res) ==
    /\ pc' = [pc EXCEPT ![p] = "idle"]
    /\ args' = [args EXCEPT ![p] = <<>>]
    /\ data' = [data EXCEPT ![p] = <<>>]
    /\ tmpname' = [tmpname EXCEPT ![p] = 0]
    /\ notes_data' = [notes_data EXCEPT ![p] = <<>>]
    /\ result' = [result EXCEPT ![p] = res]
    /\ before' = [before EXCEPT ![p] = Absent]

Goto(p, label) == pc' = [pc EXCEPT ![p] = label]

\* a caller invokes take_note(note, notes_file, append, content_type,
\* template_file, dryrun) with the arguments a
Call(p, a) ==
    /\ pc[p] = "idle"
    /\ budget[p] > 0
    /\ budget' = [budget EXCEPT ![p] = @ - 1]
    /\ Goto(p, "called")
    /\ args' = [args EXCEPT ![p] = a]
    /\ result' = [result EXCEPT ![p] = Raised("running")]
    /\ overlap' = (overlap \/ \E q \in Procs \ {p} : pc[q] # "idle")
    /\ before' = [before EXCEPT ![p] =
                    LET nf == ResolveNotesFile(configs, a)
                    IN  IF nf.kind = "ok" THEN fs[nf.val] ELSE Absent]
    /\ UNCHANGED <<configs, fs, tmpdir, data, tmpname, notes_data, log, dest0>>
    /\ UNCHANGED builderVars

\* take_note never taking its dry-run branch
IsDryRun_never(a) == FALSE

\* take_note, line 477: if dryrun
IsDryRun(a) == a.dryrun

\* take_note, lines 475-482: resolve the destination, render, and return the
\* text (dry run) or go on to one of the two writers
TakeNote(p) ==
    /\ pc[p] = "called"
    /\ LET nf == ResolveNotesFile(configs, args[p])
           rendered_note == render_note(configs, args[p])
       IN  IF nf.kind # "ok" THEN Finish(p, nf)
           ELSE IF rendered_note.kind # "ok" THEN Finish(p, rendered_note)
           ELSE IF IsDryRun(args[p])
                THEN Finish(p, [kind |-> "text", val |-> rendered_note.val])
           ELSE /\ Goto(p, IF args[p].append THEN "append" ELSE "create_tmp")
                /\ data' = [data EXCEPT ![p] = rendered_note.val]
                /\ UNCHANGED <<args, tmpname, notes_data, result, before>>
    /\ UNCHANGED <<configs, fs, tmpdir, budget, log, dest0, overlap>>
    /\ UNCHANGED builderVars

\* take_note, line 480: write_data_to_file(notes_file, rendered_note)
AppendWrite(p) ==
    /\ pc[p] = "append"
    /\ dir_exists(Dirname(Dest(p)))
    /\ fs' = [fs EXCEPT ![Dest(p)] = write_data_to_file(@, data[p])]
    /\ log' = Append(log, <<"append", data[p]>>)
    /\ Finish(p, Raised("True"))
    /\ UNCHANGED <<configs, tmpdir, budget, dest0, overlap>>
    /\ UNCHANGED builderVars

\* prepend_data_to_file, line 356: create_tmp_file('notes.', '.md')
CreateTmp(p) ==
    /\ pc[p] = "create_tmp"
    /\ tmpname' = [tmpname EXCEPT ![p] = FreshTmp]
    /\ tmpdir' = [tmpdir EXCEPT ![FreshTmp] = <<>>]
    /\ Goto(p, "write_new")
    /\ UNCHANGED <<configs, fs, args, data, notes_data, result, budget, log,
                   dest0, overlap, before>>
    /\ UNCHANGED builderVars

\* prepend_data_to_file, line 357: write_data_to_file(tmp_file.name, data)
WriteNew(p) ==
    /\ pc[p] = "write_new"
    /\ tmpdir' = [tmpdir EXCEPT ![tmpname[p]] = write_data_to_file(@, data[p])]
    /\ Goto(p, "read_old")
    /\ UNCHANGED <<configs, fs, args, data, tmpname, notes_data, result,
                   budget, log, dest0, overlap, before>>
    /\ UNCHANGED builderVars

\* prepend_data_to_file, lines 360-361: the old notes are read when the
\* destination exists
ReadOld(p) ==
    /\ pc[p] = "read_old"
    /\ IF path_exists(Dest(p))
       THEN /\ notes_data' = [notes_data EXCEPT ![p] = read_file(Dest(p))]
            /\ Goto(p, "write_old")
       ELSE /\ Goto(p, "move")
            /\ UNCHANGED notes_data
    /\ UNCHANGED <<configs, fs, tmpdir, args, data, tmpname, result, budget,
                   log, dest0, overlap, before>>
    /\ UNCHANGED builderVars

\* prepend_data_to_file, line 362: write_data_to_file(tmp_file.name, notes_data)
WriteOld(p) ==
    /\ pc[p] = "write_old"
    /\ tmpdir' = [tmpdir EXCEPT
                    ![tmpname[p]] = write_data_to_file(@, notes_data[p])]
    /\ Goto(p, "move")
    /\ UNCHANGED <<configs, fs, args, data, tmpname, notes_data, result,
                   budget, log, dest0, overlap, before>>
    /\ UNCHANGED builderVars

\* rename_file: shutil.move when os.rename succeeds (the temp directory and
\* the notes file are on one file system): the temp file replaces the
\* destination in one step
MoveRename(p) ==
    /\ pc[p] = "move"
    /\ dir_exists(Dirname(Dest(p)))
    /\ fs' = [fs EXCEPT ![Dest(p)] = tmpdir[tmpname[p]]]
    /\ tmpdir' = [tmpdir EXCEPT ![tmpname[p]] = Absent]
    /\ log' = Append(log, <<"prepend", data[p]>>)
    /\ Finish(p, Raised("True"))
    /\ UNCHANGED <<configs, budget, dest0, overlap>>
    /\ UNCHANGED builderVars

\* rename_file: shutil.move when os.rename raises OSError (the temp directory
\* is on another file system): shutil.copy2 opens the destination for
\* writing, which empties it, ...
MoveCopyOpen(p) ==
    /\ pc[p] = "move"
    /\ dir_exists(Dirname(Dest(p)))
    /\ fs' = [fs EXCEPT ![Dest(p)] = <<>>]
    /\ Goto(p, "copying")
    /\ UNCHANGED <<configs, tmpdir, args, data, tmpname, notes_data, result,
                   budget, log, dest0, overlap, before>>
    /\ UNCHANGED builderVars

\* ... copies the temp file's bytes into it, ...
MoveCopyData(p) ==
    /\ pc[p] = "copying"
    /\ fs' = [fs EXCEPT ![Dest(p)] = Overlay(@, tmpdir[tmpname[p]])]
    /\ Goto(p, "unlink")
    /\ UNCHANGED <<configs, tmpdir, args, data, tmpname, notes_data, result,
                   budget, log, dest0, overlap, before>>
    /\ UNCHANGED builderVars

\* ... and shutil.move unlinks the temp file
MoveUnlink(p) ==
    /\ pc[p] = "unlink"
    /\ tmpdir' = [tmpdir EXCEPT ![tmpname[p]] = Absent]
    /\ log' = Append(log, <<"prepend", data[p]>>)
    /\ Finish(p, Raised("True"))
    /\ UNCHANGED <<configs, fs, budget, dest0, overlap>>
    /\ UNCHANGED builderVars

\* the steps of the writers that do I/O, each in a try block that turns any
\* exception into NotesErr
IoSteps == {"append", "create_tmp", "write_new", "read_old", "write_old",
            "move", "copying", "unlink"}

\* an I/O step raises (no such directory, no permission, disk full): the
\* except clause raises NotesErr, and nothing is cleaned up
Fails(p) ==
    /\ pc[p] \in IoSteps
    /\ pc[p] = "read_old" => path_exists(Dest(p))
    /\ Finish(p, Raised("NotesErr"))
    /\ UNCHANGED <<configs, fs, tmpdir, budget, log, dest0, overlap>>
    /\ UNCHANGED builderVars

\* the process dies in the middle of a call
Crash(p) ==
    /\ pc[p] # "idle"
    /\ Finish(p, Raised("died"))
    /\ UNCHANGED <<configs, fs, tmpdir, budget, log, dest0, overlap>>
    /\ UNCHANGED builderVars

Step(p) ==
    \/ TakeNote(p)
    \/ AppendWrite(p)
    \/ CreateTmp(p)
    \/ WriteNew(p)
    \/ ReadOld(p)
    \/ WriteOld(p)
    \/ MoveRename(p)
    \/ MoveCopyOpen(p)
    \/ MoveCopyData(p)
    \/ MoveUnlink(p)
    \/ Fails(p)
    \/ Crash(p)

----------------------------------------------------------------------------
(* Inputs *)

\* the mappings with key k bound to a value of S, and the one without k
Opt(k, S) == {<<>>} \cup {[x \in {k} |-> v] : v \in S}

Req(k, S) == {[x \in {k} |-> v] : v \in S}

\* notes handed to take_note; the empty mapping makes render_note call note()
Notes == {<<>>, [comment |-> <<"a">>], [comment |-> <<"b", "CR", "LF">>]}

CallArgs ==
    {n @@ f @@ ap @@ ct @@ tf @@ dr :
        n \in Req("note", Notes),
        f \in Opt("notes_file", NotesPaths),
        ap \in Req("append", BOOLEAN),
        ct \in Opt("content_type", {"python"}),
        tf \in Opt("template_file", TemplatePaths),
        dr \in Req("dryrun", BOOLEAN)}

\* get_configs: the keys of the configuration file are all optional
FileConfigs ==
    {f @@ tf @@ ct :
        f \in Opt("notes_file", NotesPaths),
        tf \in Opt("default_template_file", TemplatePaths),
        ct \in Opt("default_content_type", {"text"})}

\* what the notes file holds before the first call
InitialContents == {Absent, <<>>, <<"x", "CR", "LF">>}

InitFiles(cfgs, contents, calls) ==
    /\ configs \in cfgs
    /\ dest0 \in contents
    /\ fs = [path \in Paths |->
                CASE path = "notes/n.md" -> dest0
                  [] path = "tpl.j2"     -> TemplateText
                  [] OTHER               -> Absent]
    /\ tmpdir = [n \in TmpNames |-> Absent]
    /\ pc = [p \in Procs |-> "idle"]
    /\ args = [p \in Procs |-> <<>>]
    /\ data = [p \in Procs |-> <<>>]
    /\ tmpname = [p \in Procs |-> 0]
    /\ notes_data = [p \in Procs |-> <<>>]
    /\ result = [p \in Procs |-> Raised("none")]
    /\ budget = calls
    /\ log = <<>>
    /\ overlap = FALSE
    /\ before = [p \in Procs |-> Absent]
    /\ op = "none"
    /\ inp = <<>>
    /\ ret = Raised("none")

\* a configuration with every key, naming a directory and a template that exist
GoodConfigs ==
    {[notes_file |-> "notes/n.md", default_template_file |-> "tpl.j2",
      default_content_type |-> "text"]}

\* calls that write: the configured notes file, the configured template
WriteArgs ==
    {n @@ ap @@ [dryrun |-> FALSE] :
        n \in Req("note", Notes), ap \in Req("append", BOOLEAN)}

\* Any call of take_note, from any configuration.
Init == InitFiles(FileConfigs, InitialContents,
                  [p \in Procs |-> IF p = "p1" THEN MaxCalls ELSE 0])

Next == \E p \in Procs : (\E a \in CallArgs : Call(p, a)) \/ Step(p)

Spec == Init /\ [][Next]_vars

\* One process writes note after note, each call after the one before ended.
InitSeq == InitFiles(GoodConfigs, InitialContents,
                     [p \in Procs |-> IF p = "p1" THEN MaxWrites ELSE 0])

NextSeq == \E p \in Procs : (\E a \in WriteArgs : Call(p, a)) \/ Step(p)

SpecSeq == InitSeq /\ [][NextSeq]_vars

\* Two processes each write one note to the same notes file, their steps
\* interleaved in any way: nothing in the code locks the file.
InitConc == InitFiles(GoodConfigs, InitialContents, [p \in Procs |-> 1])

NextConc == \E p \in Procs : (\E a \in WriteArgs : Call(p, a)) \/ Step(p)

SpecConc == InitConc /\ [][NextConc]_vars

----------------------------------------------------------------------------
(* Calls of the field builders: a run makes one call, and may hand the list *)
(* tags() returned to tags() once more                                      *)

\* a string, a string that has its '#', and a non-string
TagValues == {[str |-> <<"a">>], [str |-> <<"#", "b">>], [int |-> 1]}

TagLists == UNION {[1 .. n -> TagValues] : n \in 0 .. MaxTags}

NoteArgs ==
    {d @@ c @@ x @@ h @@ t @@ u @@ k :
        d \in Opt("date", {<<"T">>}),
        c \in Opt("comment", {<<>>, <<"h", "i">>}),
        x \in Opt("content", {<<"x">>}),
        h \in Opt("header", {<<>>, <<"H">>}),
        t \in Opt("tags", TagLists),
        u \in Opt("urls", {<<>>, <<<<"u">>>>}),
        k \in Opt("kwargs", {[author |-> <<"m", "e">>]})}

BuilderConfigs ==
    {ht @@ dh :
        ht \in Opt("auto_prepend_hashtag", BOOLEAN),
        dh \in Opt("append_date_to_header", BOOLEAN)}

\* tags(list)
CallTags(list) ==
    /\ op = "none"
    /\ op' = "tags"
    /\ inp' = [tags |-> list]
    /\ ret' = tags(configs, inp')
    /\ UNCHANGED configs
    /\ UNCHANGED fileVars

\* tags() again, on the list the last call returned
CallTagsAgain ==
    /\ op = "tags"
    /\ ret.kind = "ok"
    /\ op' = "tags_again"
    /\ inp' = ret.val
    /\ ret' = tags(configs, inp')
    /\ UNCHANGED configs
    /\ UNCHANGED fileVars

\* note(date, comment, content, tags, urls, header, **kwargs)
CallNote(a) ==
    /\ op = "none"
    /\ op' = "note"
    /\ inp' = a
    /\ ret' = note(configs, a)
    /\ UNCHANGED configs
    /\ UNCHANGED fileVars

InitBuild ==
    InitFiles(BuilderConfigs, {Absent}, [p \in Procs |-> 0])

NextBuild ==
    \/ \E list \in TagLists : CallTags(list)
    \/ CallTagsAgain
    \/ \E a \in NoteArgs : CallNote(a)

SpecBuild == InitBuild /\ [][NextBuild]_vars

----------------------------------------------------------------------------
(* Properties *)

NotesFile == "notes/n.md"

\* what a reader of a file gets: nothing when there is no file
Content(c) == IF c = Absent THEN <<>> ELSE c

RECURSIVE InCallOrder(_)
\* the texts of the logged writes, oldest first, one after another
InCallOrder(l) == IF l = <<>> THEN <<>> ELSE l[1][2] \o InCallOrder(Tail(l))

RECURSIVE NewestFirst(_)
\* the texts of the logged writes, most recent first, one after another
NewestFirst(l) == IF l = <<>> THEN <<>> ELSE NewestFirst(Tail(l)) \o l[1][2]

AllIn(l, mode) == \A i \in 1 .. Len(l) : l[i][1] = mode

\* in SpecSeq: p1 is between calls, and every call it made returned True
EveryCallSucceeded ==
    /\ pc["p1"] = "idle"
    /\ log # <<>>
    /\ Len(log) = MaxWrites - budget["p1"]

PrependSteps == {"create_tmp", "write_new", "read_old", "write_old", "move",
                 "copying", "unlink"}

BeforeTheMove == {"create_tmp", "write_new", "read_old", "write_old"}

\* the step of p is the body of take_note, run to its return, its raise or
\* its call of a writer
TakeNoteStep(p) ==
    pc[p] = "called" /\ pc'[p] # "called" /\ result'[p].kind # "died"

FilesUntouched == fs' = fs /\ tmpdir' = tmpdir

\* C1: from an absent or empty notes file, after prepend calls that all
\* succeeded, one after another, the file is the rendered texts in reverse
\* call order and nothing else.
C1_PrependedNewestFirst ==
    (EveryCallSucceeded /\ AllIn(log, "prepend") /\ dest0 \in {Absent, <<>>})
        => fs[NotesFile] = NewestFirst(log)

\* C2: at every step of a prepend, the step that fails or the death of the
\* process included, the destination holds its old content or the new text
\* followed by its old content; a failure before the final move leaves it
\* unchanged and is raised as NotesErr.  Stated with allowance for what C1
\* finds: a file that is not there counts as an empty one, and the old
\* content may follow the new text as read_file returned it.
C2_OldOrNewThenOld ==
    [][\A p \in Procs :
          pc[p] \in PrependSteps =>
              /\ Content(fs'[Dest(p)]) \in
                    {Content(before[p]),
                     data[p] \o Content(before[p]),
                     data[p] \o ReadText(Content(before[p]))}
              /\ (pc[p] \in BeforeTheMove /\ pc'[p] = "idle")
                    => /\ fs'[Dest(p)] = before[p]
                       /\ result'[p].kind \in {"NotesErr", "died"}]_vars

\* C3: after append calls that all succeeded, one after another, the notes
\* file is its previous content followed by the rendered texts in call order
\* (and so exists).
C3_AppendedInCallOrder ==
    (EveryCallSucceeded /\ AllIn(log, "append"))
        => fs[NotesFile] = Content(dest0) \o InCallOrder(log)

\* two different notes were appended to a file that held text
C3_Witness ==
    /\ EveryCallSucceeded
    /\ AllIn(log, "append")
    /\ Len(log) = 2
    /\ log[1][2] # log[2][2]
    /\ dest0 = <<"x", "CR", "LF">>

\* C4: a dry-run call never goes on to a writer, leaves the notes file and
\* the temp directory as they were, and returns the rendered text whenever
\* the destination resolves and the note renders.
C4_DryRunTouchesNothing ==
    [][\A p \in Procs :
          (pc[p] = "called" /\ args[p].dryrun /\ pc'[p] # "called") =>
              /\ FilesUntouched
              /\ pc'[p] = "idle"
              /\ result'[p].kind = "text"
                    => result'[p].val = render_note(configs, args[p]).val
              /\ (/\ result'[p].kind # "died"
                  /\ ResolveNotesFile(configs, args[p]).kind = "ok"
                  /\ render_note(configs, args[p]).kind = "ok")
                    => result'[p].kind = "text"]_vars

\* a dry run returned the text, and there is neither a notes file nor a
\* temp file
C4_Witness ==
    /\ pc["p1"] = "idle"
    /\ result["p1"].kind = "text"
    /\ result["p1"].val # <<>>
    /\ fs[NotesFile] = Absent
    /\ \A n \in TmpNames : tmpdir[n] = Absent

\* the keys of a note that come from the named arguments
FieldKeys == {"comment", "content", "header", "tags", "urls"}

\* C5, as claimed: the record holds a key among comment, content, header,
\* tags, urls only when the caller supplied a non-empty value for it.
C5_KeyOnlyWhenSupplied ==
    (op = "note" /\ ret.kind = "ok")
        => \A k \in FieldKeys : Has(ret.val, k) => Truthy(inp, k)

\* C5, amended: the record holds comment, content, tags, urls exactly when
\* the caller supplied a non-empty value, the extras always, and header
\* always: the timestamp when no header was supplied.
C5_HeaderAlwaysPresent ==
    (op = "note" /\ ret.kind = "ok")
        => /\ DOMAIN ret.val =
                {k \in FieldKeys \ {"header"} : Truthy(inp, k)}
                \cup {"header"}
                \cup (IF Has(inp, "kwargs") THEN DOMAIN inp.kwargs ELSE {})
           /\ \A k \in DOMAIN ret.val \cap (FieldKeys \ {"header"}) :
                k \in {"comment", "content", "urls"} => ret.val[k] = inp[k]
           /\ ~Truthy(inp, "header")
                => ret.val.header = (IF Truthy(inp, "date") THEN inp.date ELSE Now)

\* note(comment="hi") returned {comment: "hi", header: <timestamp>}
C5_Witness ==
    /\ op = "note"
    /\ DOMAIN inp = {"comment"}
    /\ inp.comment = <<"h", "i">>
    /\ ret.kind = "ok"
    /\ DOMAIN ret.val = {"comment", "header"}
    /\ ret.val.comment = <<"h", "i">>
    /\ ret.val.header = Now

\* the tag the claim expects for an element
ExpectedTag(tag) ==
    IF configs["auto_prepend_hashtag"] /\ ~StartsWithHash(Str(tag))
    THEN HashPrefixed(Str(tag))
    ELSE Str(tag)

\* C6: with auto_prepend_hashtag set either way, tags(list) raises nothing
\* and returns a list of the same length, each element the string form of
\* the input's, with '#' put before it when the flag is true and it has none.
C6_TagsNormalised ==
    (op = "tags" /\ Has(configs, "auto_prepend_hashtag"))
        => /\ ret.kind = "ok"
           /\ Len(ret.val.tags) = Len(inp.tags)
           /\ \A i \in 1 .. Len(inp.tags) :
                ret.val.tags[i] = ExpectedTag(inp.tags[i])

\* C7: a call whose destination (the notes_file passed, or else the
\* configured one) lies in a directory that does not exist raises NotesErr
\* at once, whatever its flags, with no file created or changed.  Stated
\* with allowance for what C8 finds: the KeyError of a configuration without
\* default_content_type counts as the failure too.
C7_MissingDirectoryRaises ==
    [][\A p \in Procs :
          (/\ TakeNoteStep(p)
           /\ TruthyName(args[p], "notes_file") \/ Has(configs, "notes_file")
           /\ ~dir_exists(Dirname(IF TruthyName(args[p], "notes_file")
                                  THEN args[p].notes_file
                                  ELSE configs["notes_file"])))
              => /\ result'[p].kind \in {"NotesErr", "KeyError"}
                 /\ pc'[p] = "idle"
                 /\ FilesUntouched]_vars

\* C8: a call whose template (the template_file passed, or else the
\* configured default_template_file) is not on disk raises NotesErr, never
\* another exception, with the notes file and the temp directory untouched.
C8_MissingTemplateRaisesNotesErr ==
    [][\A p \in Procs :
          (/\ TakeNoteStep(p)
           /\ TruthyName(args[p], "template_file")
                \/ Has(configs, "default_template_file")
           /\ ~path_exists(IF TruthyName(args[p], "template_file")
                           THEN args[p].template_file
                           ELSE configs["default_template_file"]))
              => /\ result'[p].kind = "NotesErr"
                 /\ pc'[p] = "idle"
                 /\ FilesUntouched]_vars

\* C9: tags() applied to a list that tags() returned returns that list.
C9_TagsIdempotent ==
    op = "tags_again" => (ret.kind = "ok" /\ ret.val = inp)

\* with the flag true, tags() was handed its own result for ["a", "#b"]
C9_Witness ==
    /\ op = "tags_again"
    /\ Has(configs, "auto_prepend_hashtag")
    /\ configs["auto_prepend_hashtag"]
    /\ inp.tags = <<[str |-> <<"#", "a">>], [str |-> <<"#", "b">>]>>
    /\ ret.kind = "ok"

BothPrepended ==
    /\ \A p \in Procs : pc[p] = "idle" /\ result[p].kind = "True"
    /\ Len(log) = 2
    /\ AllIn(log, "prepend")

\* C10: two prepends of which one ended before the other began keep both
\* notes: the file is the later note, then the earlier one and what the file
\* held before, as prepend_data_to_file read them back.  (The witness is the
\* interleaved run that loses one.)
C10_SerialKeepsBoth ==
    (BothPrepended /\ ~overlap)
        => fs[NotesFile] =
              log[2][2] \o ReadText(log[1][2] \o ReadText(Content(dest0)))

\* both invocations returned True, and the file holds the note of the one
\* that moved last and the old content, without the other's note
C10_LostUpdate ==
    /\ BothPrepended
    /\ overlap
    /\ dest0 = <<"x", "CR", "LF">>
    /\ log[1][2] = <<"a", "LF">>
    /\ log[2][2] = <<"b", "CR", "LF", "LF">>
    /\ fs[NotesFile] = log[2][2] \o ReadText(dest0)

====
